---- MODULE Spec2Model ----
(***************************************************************************)
(* Model of the real-time audio pipeline of the visualizer:                *)
(*   - AudioInput (src/audio_input.py): live capture, device callback,     *)
(*     bounded frame queue, drain-to-latest read;                          *)
(*   - AudioFilePlayer (src/player.py): file playback, transport commands, *)
(*     device callback under the transport lock, the same frame queue.     *)
(* Two threads are modelled: the consumer (main loop, one call at a time)  *)
(* and the audio device thread (one callback invocation at a time).        *)
(* Every access to shared state is one step; queue.Queue operations are    *)
(* atomic (they run under the queue's own mutex).                          *)
(*   - AudioAnalyzer (src/analyzer.py): the rolling histories and the beat *)
(*     and treble detection, explored on their own (AnalyzerSpec);         *)
(*   - VisualizerRenderer (src/visuals.py) inside the main loop of         *)
(*     src/main.py: modes, intensity, particles and rings, explored on     *)
(*     their own (RendererSpec).                                           *)
(***************************************************************************)
EXTENDS Integers, Sequences, FiniteSets, TLC

(***************************************************************************)
(* Program constants and model bounds                                      *)
(***************************************************************************)
\* queue.Queue(maxsize=8)
QueueMax == 8

\* self._samplerate before any file is loaded
DefaultRate == 44100

\* blocksize (frames per callback); 1024 by default, small here
BlockSize == 2

\* number of samples of the non-empty audio file
MaxSamples == 3

\* channel count of the capture device (AudioConfig.channels)
MicChannels == 2

\* number of transport commands (load, play, pause, toggle, restart, seek)
\* the consumer issues in one run
MaxCmds == 3

\* a frame's age stops counting here
AgeCap == QueueMax + 2

Min(a, b) == IF a < b THEN a ELSE b

Max(a, b) == IF a > b THEN a ELSE b

(***************************************************************************)
(* Audio data                                                              *)
(***************************************************************************)
\* The files the consumer can load: path 1 is a stereo file of MaxSamples
\* samples, path 2 a mono file without samples.
Paths == {1, 2}

FileLen(path) == IF path = 1 THEN MaxSamples ELSE 0

FileChannels(path) == IF path = 1 THEN 2 ELSE 1

FileRate(path) == IF path = 1 THEN 1 ELSE 3

\* sf.read(path, always_2d=True): row i (0-based) of the decoded data
FileRow(path, i) == [c \in 1..FileChannels(path) |-> 2 * i + 2 * c - 1]

\* data = sf.read(...)[0]: the rows of the file
Decode(path) == [k \in 1..FileLen(path) |-> FileRow(path, k - 1)]

\* np.zeros((n, ch)): n rows of ch zero samples
Zeros2D(n, ch) == [k \in 1..n |-> [c \in 1..ch |-> 0]]

\* np.zeros(n): n zero samples
Zeros(n) == [k \in 1..n |-> 0]

RECURSIVE Sum(_)
Sum(row) == IF row = <<>> THEN 0 ELSE Head(row) + Sum(Tail(row))

\* np.mean(block, axis=1): one sample per row, the mean over the channels
MeanAxis1(block) == [k \in 1..Len(block) |-> Sum(block[k]) \div Len(block[k])]

\* One block delivered by the capture device: row k has MicChannels samples
\* with mean MicChannels * k.
MicBlock == [k \in 1..BlockSize |->
               [c \in 1..MicChannels |-> MicChannels * k + 2 * c - MicChannels - 1]]

(***************************************************************************)
(* Frames in the exchange.  A frame is the mono block pushed by a callback;*)
(* age is a history label (not program state): the number of frames pushed *)
(* after this one, so the most recently pushed frame has age 0.            *)
(***************************************************************************)
NoAge == 0 - 1

\* Python's None for a frame-valued variable
None == [age |-> NoAge, data |-> <<>>]

\* np.zeros(blocksize): the silent frame a drain returns when nothing was read
SilentFrame == [age |-> NoAge, data |-> Zeros(BlockSize)]

\* the value of expect once a push (the put_nowait, or the put / get / put of
\* an overflow) overlapped the drain or followed it
Dirty == [age |-> NoAge - 1, data |-> <<>>]

NewFrame(data) == [age |-> 0, data |-> data]

Older(f) == IF f.age < 0 THEN f ELSE [f EXCEPT !.age = Min(AgeCap, @ + 1)]

OlderAll(q) == [k \in 1..Len(q) |-> Older(q[k])]

(***************************************************************************)
(* State                                                                   *)
(***************************************************************************)
VARIABLES
  source,       \* which AudioSource the program runs: "mic" or "file"
  queue,        \* self._queue / self._analysis_queue: the buffered frames
  stream,       \* self._stream: "none" (None), "active", "stopped", "closed"
  streamCh,     \* channel count the open stream was created with
  running,      \* AudioInput._running (threading.Event)
  audio,        \* self._audio: 0 for None, else the path it was decoded from
  samplerate,   \* self._samplerate
  channels,     \* self._channels
  position,     \* self._position
  playing,      \* self._playing
  loaded_path,  \* self._loaded_path: 0 for None
  lock,         \* self._lock: "free", "main" or "cb" (the holder)
  cbPc,         \* where the callback invocation in progress stands
  cbStart,      \* _callback's local start
  cbEnd,        \* _callback's local end
  outdata,      \* the device buffer of the invocation in progress
  block,        \* _callback's local block
  mono,         \* the callback's local mono
  mainPc,       \* where the consumer's call in progress stands
  mainArg,      \* the call's argument (load: the path; seek: the half-seconds)
  mainTmp,      \* the call's read of self._position
  inLoad,       \* close() was called by load() through _restart_stream()
  latest,       \* the drain's local latest
  result,       \* the frame a drain returns, until the caller has taken it
  info,         \* the PlaybackInfo get_info returns, until the caller has taken it
  cmds,         \* history: transport commands issued so far
  pushCount,    \* history: pushes since the consumer last touched the queue
  expect,       \* history: what a drain without concurrent push has to return
  cbRan,        \* history: a callback invocation has returned
  cbStatus,     \* history: the status flag of the last capture callback
  cbPushes,     \* history: frames pushed by the last callback invocation
  returned,     \* history: age of the pushed frame a drain returned last (OrderSpec)
  bass_hist,    \* AudioAnalyzer.bass_hist, oldest entry first, in units of 1e-6
  high_hist,    \* AudioAnalyzer.high_hist
  vol_hist,     \* AudioAnalyzer.vol_hist
  state,        \* the AnalysisState the last analyze call returned
  prevBass,     \* history: bass_hist as the last analyze call found it
  prevHigh,     \* history: high_hist as the last analyze call found it
  calls,        \* history: analyze calls made so far
  particles,    \* VisualizerRenderer.particles, oldest first, as runs of equal particles
  rings,        \* VisualizerRenderer.rings, oldest first, as runs of equal rings
  intensity,    \* VisualizerRenderer.intensity, in thousandths
  mode_index,   \* VisualizerRenderer.mode_index
  loopPc,       \* where the main loop is in its iteration
  dt,           \* main's dt of this iteration, in milliseconds
  sinceSwitch,  \* main's now - last_mode_switch, in milliseconds
  warm,         \* history: warm-up iterations of the main loop started so far
  loops,        \* history: iterations of the main loop started after the warm-up
  modeTrail,    \* history: the modes left by the last three mode switches
  lastUpdate    \* history: what the last update call was given and did

qVars == <<queue, latest, result, pushCount, expect>>

playerVars == <<audio, samplerate, channels, position, playing, loaded_path>>

streamVars == <<stream, streamCh, running>>

cbVars == <<cbPc, cbStart, cbEnd, outdata, block, mono>>

cbHist == <<cbRan, cbStatus, cbPushes>>

mainVars == <<mainPc, mainArg, mainTmp, inLoad, info, cmds>>

sourceVars == <<source, qVars, playerVars, streamVars, lock, cbVars, cbHist, mainVars,
               returned>>

anVars == <<bass_hist, high_hist, vol_hist, state, prevBass, prevHigh, calls>>

visVars == <<particles, rings, intensity, mode_index, loopPc, dt, sinceSwitch, warm, loops,
             modeTrail, lastUpdate>>

vars == <<sourceVars, anVars, visVars>>

NoInfo == [loaded |-> FALSE, playing |-> FALSE, position |-> 0, duration |-> 0,
           rate |-> 1, filename |-> 0]

\* no AnalysisState yet
NoState == [bass |-> 0, high |-> 0, volume |-> 0, beat |-> FALSE, treble_hit |-> FALSE,
            made |-> FALSE]

\* AudioAnalyzer.__init__: three empty deques
FreshAnalyzer ==
  /\ bass_hist = <<>>
  /\ high_hist = <<>>
  /\ vol_hist = <<>>
  /\ state = NoState
  /\ prevBass = <<>>
  /\ prevHigh = <<>>
  /\ calls = 0

\* no update call yet
NoUpdate == [beat |-> FALSE, treble_hit |-> FALSE, made |-> FALSE,
             beforeP |-> 0, beforeR |-> 0, spawnedP |-> 0, spawnedR |-> 0,
             untrimmedP |-> <<>>, untrimmedR |-> <<>>]

\* VisualizerRenderer.__init__, and main before its loop
FreshRenderer ==
  /\ particles = <<>>
  /\ rings = <<>>
  /\ intensity = 0
  /\ mode_index = 0
  /\ loopPc = "tick"
  /\ dt = 0
  /\ sinceSwitch = 0
  /\ warm = 0
  /\ loops = 0
  /\ modeTrail = <<>>
  /\ lastUpdate = NoUpdate

\* the audio source after construction: AudioInput() or AudioFilePlayer()
FreshSourceAfter(spent) ==
  /\ source \in {"mic", "file"}
  /\ queue = <<>>
  /\ stream = "none"
  /\ streamCh = 0
  /\ running = FALSE
  /\ audio = 0
  /\ samplerate = DefaultRate
  /\ channels = 0
  /\ position = 0
  /\ playing = FALSE
  /\ loaded_path = 0
  /\ lock = "free"
  /\ cbPc = "idle"
  /\ cbStart = 0
  /\ cbEnd = 0
  /\ outdata = <<>>
  /\ block = <<>>
  /\ mono = <<>>
  /\ mainPc = "idle"
  /\ mainArg = 0
  /\ mainTmp = 0
  /\ inLoad = FALSE
  /\ latest = None
  /\ result = None
  /\ info = NoInfo
  /\ cmds = spent
  /\ pushCount = 0
  /\ expect = Dirty
  /\ cbRan = FALSE
  /\ cbStatus = FALSE
  /\ cbPushes = 0
  /\ returned = NoAge

FreshSource == FreshSourceAfter(0)

Init == FreshSource /\ FreshAnalyzer /\ FreshRenderer

(***************************************************************************)
(* The frame exchange: queue.Queue(maxsize=8)                              *)
(***************************************************************************)
\* Queue.put_nowait raises Full when the queue holds maxsize items
QueueFull(q) == Len(q) >= QueueMax

\* Queue.get_nowait removes and returns the item at the head (FIFO)
GetHead(q) == Head(q)

GetRest(q) == Tail(q)

\* a get_nowait() that removes nothing
DropNothing(q) == q

\* a get_nowait() that removes the newest frame
DropNewest(q) == SubSeq(q, 1, Len(q) - 1)

\* the callback's get_nowait() after Full: the head, the oldest frame, goes
DropOldest(q) == Tail(q)

\* Queue.put_nowait(mono) succeeding: the frame goes to the tail.  Every
\* frame pushed earlier, wherever it is held, is one push older.
Pushed(data, pushedBefore) ==
  /\ queue' = Append(OlderAll(queue), NewFrame(data))
  /\ latest' = Older(latest)
  /\ result' = Older(result)
  /\ pushCount' = Min(QueueMax + 1, pushCount + 1)
  /\ expect' = Dirty
  /\ cbPushes' = pushedBefore + 1

\* The invocation returns: its locals are gone, the buffer is the device's.
CbReturn ==
  /\ cbPc' = "idle"
  /\ cbStart' = 0
  /\ cbEnd' = 0
  /\ outdata' = <<>>
  /\ block' = <<>>
  /\ mono' = <<>>
  /\ cbRan' = TRUE

\* try: put_nowait(m)  /  except queue.Full: go on to drop the oldest
TryPut(m, pushedBefore) ==
  IF QueueFull(queue)
    THEN /\ cbPc' = "full"
         /\ mono' = m
         /\ block' = <<>>
         /\ cbPushes' = pushedBefore
         /\ expect' = Dirty
         /\ UNCHANGED <<queue, latest, result, pushCount, cbStart, cbEnd, outdata, cbRan>>
    ELSE /\ Pushed(m, pushedBefore)
         /\ CbReturn

(***************************************************************************)
(* AudioInput._audio_callback (device thread)                              *)
(***************************************************************************)
\* a callback without the status check
SkipsNever(status) == FALSE

\* if status: return
SkipsBlock(status) == status

\* if status: return; mono = mean(indata); try: put_nowait(mono)
AudioCallback(status) ==
  /\ source = "mic"
  /\ stream = "active"
  /\ cbPc = "idle"
  /\ cbStatus' = status
  /\ IF SkipsBlock(status)
       THEN /\ cbRan' = TRUE
            /\ cbPushes' = 0
            /\ UNCHANGED <<qVars, cbVars>>
       ELSE TryPut(MeanAxis1(MicBlock), 0)
  /\ UNCHANGED <<source, playerVars, streamVars, lock, mainVars>>

\* except queue.Full: try: get_nowait() except queue.Empty: pass
CbDropOldest ==
  /\ cbPc = "full"
  /\ IF queue = <<>>
       THEN UNCHANGED queue
       ELSE queue' = DropOldest(queue)
  /\ cbPc' = "put2"
  /\ UNCHANGED <<source, latest, result, pushCount, expect, playerVars, streamVars,
                 lock, cbStart, cbEnd, outdata, block, mono, cbHist, mainVars>>

\* the second put_nowait(mono), outside any try: Full propagates
CbPutAgain ==
  /\ cbPc = "put2"
  /\ IF QueueFull(queue)
       THEN /\ cbPc' = "raised"
            /\ UNCHANGED <<qVars, cbStart, cbEnd, outdata, block, mono, cbRan, cbPushes>>
       ELSE /\ Pushed(mono, cbPushes)
            /\ CbReturn
  /\ UNCHANGED <<source, playerVars, streamVars, lock, cbStatus, mainVars>>

(***************************************************************************)
(* AudioFilePlayer._callback (device thread)                               *)
(***************************************************************************)
\* a lock that never makes anyone wait
LockIgnored == TRUE

\* self._lock is free: `with self._lock` can be entered
LockFree == lock = "free"

\* the device invokes _callback(outdata, frames, time, status): outdata.fill(0)
PlayerCallback(status) ==
  /\ source = "file"
  /\ stream = "active"
  /\ cbPc = "idle"
  /\ outdata' = Zeros2D(BlockSize, streamCh)
  /\ cbPc' = "enter"
  /\ cbPushes' = 0
  /\ UNCHANGED <<source, qVars, playerVars, streamVars, lock, cbStart, cbEnd, block,
                 mono, cbRan, cbStatus, mainVars>>

\* with self._lock:
CbAcquire ==
  /\ cbPc = "enter"
  /\ LockFree
  /\ lock' = "cb"
  /\ cbPc' = "locked"
  /\ UNCHANGED <<source, qVars, playerVars, streamVars, cbStart, cbEnd, outdata, block,
                 mono, cbHist, mainVars>>

\* end = min(start + frames, self._audio.shape[0])
EndOf(start, frames, total) == Min(start + frames, total)

\* outdata[:wrote] = chunk, with chunk = self._audio[start:end];
\* if wrote < frames: outdata[wrote:] = 0
CopyChunk(out, path, start, end) ==
  [k \in 1..Len(out) |->
     IF k <= end - start THEN Decode(path)[start + k] ELSE [c \in 1..Len(out[k]) |-> 0]]

\* playback that stops only on a callback that copied nothing
StopsWhenNothing(wrote, frames) == wrote = 0

\* playback that never stops
StopsNever(wrote, frames) == FALSE

\* wrote < frames: the end of the stream stops playback
StopsAtEnd(wrote, frames) == wrote < frames

\* a critical section that copies and advances whether playing or paused
CbReadIgnoresPause ==
  /\ cbPc = "locked"
  /\ IF audio = 0
       THEN /\ block' = Zeros2D(BlockSize, 1)
            /\ lock' = "free"
            /\ cbPc' = "push"
            /\ UNCHANGED <<playing, cbStart, cbEnd, outdata>>
       ELSE /\ cbStart' = position
            /\ cbEnd' = EndOf(position, BlockSize, FileLen(audio))
            /\ outdata' = CopyChunk(outdata, audio, position, cbEnd')
            /\ playing' = IF StopsAtEnd(cbEnd' - position, BlockSize) THEN FALSE ELSE playing
            /\ cbPc' = "advance"
            /\ UNCHANGED <<lock, block>>
  /\ UNCHANGED <<source, qVars, audio, samplerate, channels, position, loaded_path,
                 streamVars, mono, cbHist, mainVars>>

\* the first half of the critical section: the silent branch, or the read of
\* the cursor, the copy into outdata and the end-of-stream stop
CbRead ==
  /\ cbPc = "locked"
  /\ IF audio = 0 \/ ~playing
       THEN /\ block' = Zeros2D(BlockSize, 1)
            /\ lock' = "free"
            /\ cbPc' = "push"
            /\ UNCHANGED <<playing, cbStart, cbEnd, outdata>>
       ELSE /\ cbStart' = position
            /\ cbEnd' = EndOf(position, BlockSize, FileLen(audio))
            /\ outdata' = CopyChunk(outdata, audio, position, cbEnd')
            /\ playing' = IF StopsAtEnd(cbEnd' - position, BlockSize) THEN FALSE ELSE playing
            /\ cbPc' = "advance"
            /\ UNCHANGED <<lock, block>>
  /\ UNCHANGED <<source, qVars, audio, samplerate, channels, position, loaded_path,
                 streamVars, mono, cbHist, mainVars>>

\* self._position = end; block = outdata[:frames].copy(); the lock is released
CbAdvance ==
  /\ cbPc = "advance"
  /\ position' = cbEnd
  /\ block' = outdata
  /\ lock' = "free"
  /\ cbPc' = "push"
  /\ UNCHANGED <<source, qVars, audio, samplerate, channels, playing, loaded_path,
                 streamVars, cbStart, cbEnd, outdata, mono, cbHist, mainVars>>

\* mono = np.mean(block, axis=1); try: put_nowait(mono)
CbPush ==
  /\ cbPc = "push"
  /\ TryPut(MeanAxis1(block), cbPushes)
  /\ UNCHANGED <<source, playerVars, streamVars, lock, cbStatus, mainVars>>

(***************************************************************************)
(* The drain-to-latest read (consumer thread):                             *)
(* AudioInput.get_latest_frame and AudioFilePlayer.get_last_block          *)
(***************************************************************************)
\* a drain that keeps the first frame it reads
KeepFirst(held, got) == IF held = None THEN got ELSE held

\* latest = self._queue.get_nowait(): the frame read replaces the one held
DrainKeep(held, got) == got

\* if latest is None: return np.zeros(blocksize); return latest
DrainResult(held) == IF held = None THEN SilentFrame ELSE held

\* a callback is between its first put_nowait, which raised Full, and its second
PushInProgress == cbPc \in {"full", "put2"}

\* the call: latest = None
DrainCall ==
  /\ mainPc = "idle"
  /\ mainPc' = "drain"
  /\ latest' = None
  /\ pushCount' = 0
  /\ expect' = IF PushInProgress THEN Dirty
                ELSE IF queue = <<>> THEN SilentFrame ELSE queue[Len(queue)]
  /\ UNCHANGED <<source, queue, result, playerVars, streamVars, lock, cbVars, cbHist,
                 mainArg, mainTmp, inLoad, info, cmds>>

\* one turn of the loop in which get_nowait() returns a frame
DrainGet ==
  /\ mainPc = "drain"
  /\ queue # <<>>
  /\ latest' = DrainKeep(latest, GetHead(queue))
  /\ queue' = GetRest(queue)
  /\ pushCount' = 0
  /\ UNCHANGED <<source, result, expect, playerVars, streamVars, lock, cbVars, cbHist,
                 mainVars>>

\* a drain that leaves the frame it returns in the queue
DrainEmptyRequeues ==
  /\ mainPc = "drain"
  /\ queue = <<>>
  /\ result' = DrainResult(latest)
  /\ queue' = IF latest = None THEN queue ELSE <<latest>>
  /\ latest' = None
  /\ mainPc' = "drained"
  /\ pushCount' = 0
  /\ UNCHANGED <<source, expect, playerVars, streamVars, lock, cbVars, cbHist,
                 mainArg, mainTmp, inLoad, info, cmds>>

\* the turn in which get_nowait() raises Empty: break, and the return
DrainEmpty ==
  /\ mainPc = "drain"
  /\ queue = <<>>
  /\ result' = DrainResult(latest)
  /\ latest' = None
  /\ mainPc' = "drained"
  /\ pushCount' = 0
  /\ UNCHANGED <<source, queue, expect, playerVars, streamVars, lock, cbVars, cbHist,
                 mainArg, mainTmp, inLoad, info, cmds>>

\* the caller takes the returned frame (main: state = analyzer.analyze(frame))
DrainTaken ==
  /\ mainPc = "drained"
  /\ result' = None
  /\ mainPc' = "idle"
  /\ UNCHANGED <<source, queue, latest, pushCount, expect, playerVars, streamVars, lock,
                 cbVars, cbHist, mainArg, mainTmp, inLoad, info, cmds>>

(***************************************************************************)
(* AudioInput.start and AudioInput.stop (consumer thread)                  *)
(***************************************************************************)
\* if self._running.is_set(): return; self._stream = sd.InputStream(...);
\* self._stream.start()
MicStart ==
  /\ source = "mic"
  /\ mainPc = "idle"
  /\ ~running
  /\ stream' = "active"
  /\ streamCh' = MicChannels
  /\ mainPc' = "started"
  /\ UNCHANGED <<source, qVars, playerVars, running, lock, cbVars, cbHist,
                 mainArg, mainTmp, inLoad, info, cmds>>

\* self._running.set()
MicSetRunning ==
  /\ mainPc = "started"
  /\ running' = TRUE
  /\ mainPc' = "idle"
  /\ UNCHANGED <<source, qVars, playerVars, stream, streamCh, lock, cbVars, cbHist,
                 mainArg, mainTmp, inLoad, info, cmds>>

\* stop(): self._running.clear(); the check of self._stream follows
MicStop ==
  /\ source = "mic"
  /\ mainPc = "idle"
  /\ running' = FALSE
  /\ mainPc' = "closing"
  /\ inLoad' = FALSE
  /\ UNCHANGED <<source, qVars, playerVars, stream, streamCh, lock, cbVars, cbHist,
                 mainArg, mainTmp, info, cmds>>

(***************************************************************************)
(* Releasing the stream: the body of AudioInput.stop and of                *)
(* AudioFilePlayer.close                                                   *)
(***************************************************************************)
\* a release that does not look whether there is a stream
CloseUnchecked ==
  /\ mainPc = "closing"
  /\ mainPc' = "stop"
  /\ UNCHANGED <<source, qVars, playerVars, streamVars, lock, cbVars, cbHist,
                 mainArg, mainTmp, inLoad, info, cmds>>

\* if self._stream is not None: without a stream stop and close return, and
\* _restart_stream goes on
CloseCheck ==
  /\ mainPc = "closing"
  /\ mainPc' = IF stream # "none" THEN "stop" ELSE IF inLoad THEN "open" ELSE "idle"
  /\ UNCHANGED <<source, qVars, playerVars, streamVars, lock, cbVars, cbHist,
                 mainArg, mainTmp, inLoad, info, cmds>>

\* a release that leaves out self._stream.stop()
StreamStopSkipped ==
  /\ mainPc = "stop"
  /\ mainPc' = "close"
  /\ UNCHANGED <<source, qVars, playerVars, streamVars, lock, cbVars, cbHist,
                 mainArg, mainTmp, inLoad, info, cmds>>

\* self._stream.stop(): returns once no callback invocation is running
StreamStop ==
  /\ mainPc = "stop"
  /\ cbPc = "idle"
  /\ stream' = "stopped"
  /\ mainPc' = "close"
  /\ UNCHANGED <<source, qVars, playerVars, streamCh, running, lock, cbVars, cbHist,
                 mainArg, mainTmp, inLoad, info, cmds>>

\* self._stream.close()
StreamClose ==
  /\ mainPc = "close"
  /\ stream' = "closed"
  /\ mainPc' = "drop"
  /\ UNCHANGED <<source, qVars, playerVars, streamCh, running, lock, cbVars, cbHist,
                 mainArg, mainTmp, inLoad, info, cmds>>

\* self._stream = None; in _restart_stream the rest of it follows
StreamDrop ==
  /\ mainPc = "drop"
  /\ stream' = "none"
  /\ streamCh' = 0
  /\ mainPc' = IF inLoad THEN "open" ELSE "idle"
  /\ UNCHANGED <<source, qVars, playerVars, running, lock, cbVars, cbHist,
                 mainArg, mainTmp, inLoad, info, cmds>>

(***************************************************************************)
(* AudioFilePlayer.load, _restart_stream and close (consumer thread)       *)
(***************************************************************************)
\* load(path): data, samplerate = sf.read(path, ...)
LoadCall(path) ==
  /\ source = "file"
  /\ mainPc = "idle"
  /\ cmds < MaxCmds
  /\ cmds' = cmds + 1
  /\ mainArg' = path
  /\ mainPc' = "load"
  /\ UNCHANGED <<source, qVars, playerVars, streamVars, lock, cbVars, cbHist,
                 mainTmp, inLoad, info>>

\* with self._lock:
LoadAcquire ==
  /\ mainPc = "load"
  /\ LockFree
  /\ lock' = "main"
  /\ mainPc' = "load_cs"
  /\ UNCHANGED <<source, qVars, playerVars, streamVars, cbVars, cbHist,
                 mainArg, mainTmp, inLoad, info, cmds>>

\* a load that runs _restart_stream inside its critical section
LoadAssignLocked ==
  /\ mainPc = "load_cs"
  /\ audio' = mainArg
  /\ samplerate' = FileRate(mainArg)
  /\ channels' = FileChannels(mainArg)
  /\ position' = 0
  /\ playing' = FALSE
  /\ loaded_path' = mainArg
  /\ inLoad' = TRUE
  /\ mainPc' = "closing"
  /\ UNCHANGED <<source, qVars, streamVars, lock, cbVars, cbHist, mainArg, mainTmp,
                 info, cmds>>

\* a load that leaves the playing flag as it was
LoadKeepsPlaying ==
  /\ mainPc = "load_cs"
  /\ audio' = mainArg
  /\ samplerate' = FileRate(mainArg)
  /\ channels' = FileChannels(mainArg)
  /\ position' = 0
  /\ loaded_path' = mainArg
  /\ lock' = "free"
  /\ inLoad' = TRUE
  /\ mainPc' = "closing"
  /\ UNCHANGED <<source, qVars, playing, streamVars, cbVars, cbHist, mainArg, mainTmp,
                 info, cmds>>

\* a load that leaves the cursor where it was
LoadKeepsCursor ==
  /\ mainPc = "load_cs"
  /\ audio' = mainArg
  /\ samplerate' = FileRate(mainArg)
  /\ channels' = FileChannels(mainArg)
  /\ playing' = FALSE
  /\ loaded_path' = mainArg
  /\ lock' = "free"
  /\ inLoad' = TRUE
  /\ mainPc' = "closing"
  /\ UNCHANGED <<source, qVars, position, streamVars, cbVars, cbHist, mainArg, mainTmp,
                 info, cmds>>

\* the six assignments of load's critical section; then self._restart_stream(),
\* which starts with self.close()
LoadAssign ==
  /\ mainPc = "load_cs"
  /\ audio' = mainArg
  /\ samplerate' = FileRate(mainArg)
  /\ channels' = FileChannels(mainArg)
  /\ position' = 0
  /\ playing' = FALSE
  /\ loaded_path' = mainArg
  /\ lock' = "free"
  /\ inLoad' = TRUE
  /\ mainPc' = "closing"
  /\ UNCHANGED <<source, qVars, streamVars, cbVars, cbHist, mainArg, mainTmp, info, cmds>>

\* _restart_stream after close(): if not self.loaded: return;
\* self._stream = sd.OutputStream(...); self._stream.start()
RestartOpen ==
  /\ mainPc = "open"
  /\ IF audio = 0
       THEN UNCHANGED <<stream, streamCh>>
       ELSE /\ stream' = "active"
            /\ streamCh' = channels
  /\ inLoad' = FALSE
  /\ mainArg' = 0
  /\ mainPc' = "idle"
  /\ UNCHANGED <<source, qVars, playerVars, running, lock, cbVars, cbHist,
                 mainTmp, info, cmds>>

\* close() is called (main's shutdown); the check of self._stream follows
CloseCall ==
  /\ source = "file"
  /\ mainPc = "idle"
  /\ inLoad' = FALSE
  /\ mainPc' = "closing"
  /\ UNCHANGED <<source, qVars, playerVars, streamVars, lock, cbVars, cbHist,
                 mainArg, mainTmp, info, cmds>>

(***************************************************************************)
(* Transport commands (consumer thread)                                    *)
(***************************************************************************)
\* the halves of a second seek() is called with: -9999 s, -1.5 s, -0.5 s, ...
SeekHalves == {0 - 19998, 0 - 3, 0 - 1, 1, 3, 19998}

\* int(x) of Python, for x = num / den: truncation towards zero
IntOf(num, den) == IF num >= 0 THEN num \div den ELSE 0 - ((0 - num) \div den)

\* a seek that clamps to the length instead of the last sample
SeekToLength(pos, halves, rate, total) ==
  Max(0, Min(total, pos + IntOf(halves * rate, 2)))

\* delta = int(seconds * self._samplerate), max_pos = self._audio.shape[0] - 1,
\* max(0, min(max_pos, self._position + delta))
SeekTarget(pos, halves, rate, total) ==
  Max(0, Min(total - 1, pos + IntOf(halves * rate, 2)))

\* play(), pause(), toggle(), restart(), seek(seconds): with self._lock
TransportCall(op, halves) ==
  /\ source = "file"
  /\ mainPc = "idle"
  /\ cmds < MaxCmds
  /\ LockFree
  /\ cmds' = cmds + 1
  /\ lock' = "main"
  /\ mainPc' = op
  /\ mainArg' = IF op = "seek" THEN halves ELSE 0
  /\ UNCHANGED <<source, qVars, playerVars, streamVars, cbVars, cbHist,
                 mainTmp, inLoad, info>>

\* the lock is released and the call returns
MainRelease ==
  /\ lock' = "free"
  /\ mainPc' = "idle"
  /\ mainArg' = 0
  /\ mainTmp' = 0

\* a play without the check for a loaded file
PlayUnchecked ==
  /\ mainPc = "play"
  /\ playing' = TRUE
  /\ MainRelease
  /\ UNCHANGED <<source, qVars, audio, samplerate, channels, position, loaded_path,
                 streamVars, cbVars, cbHist, inLoad, info, cmds>>

\* play: if self._audio is None: return; self._playing = True
Play ==
  /\ mainPc = "play"
  /\ playing' = IF audio = 0 THEN playing ELSE TRUE
  /\ MainRelease
  /\ UNCHANGED <<source, qVars, audio, samplerate, channels, position, loaded_path,
                 streamVars, cbVars, cbHist, inLoad, info, cmds>>

\* pause: self._playing = False
Pause ==
  /\ mainPc = "pause"
  /\ playing' = FALSE
  /\ MainRelease
  /\ UNCHANGED <<source, qVars, audio, samplerate, channels, position, loaded_path,
                 streamVars, cbVars, cbHist, inLoad, info, cmds>>

\* toggle: if self._audio is None: return; self._playing = not self._playing
Toggle ==
  /\ mainPc = "toggle"
  /\ playing' = IF audio = 0 THEN playing ELSE ~playing
  /\ MainRelease
  /\ UNCHANGED <<source, qVars, audio, samplerate, channels, position, loaded_path,
                 streamVars, cbVars, cbHist, inLoad, info, cmds>>

\* a restart that also pauses
RestartAndPause ==
  /\ mainPc = "restart"
  /\ position' = IF audio = 0 THEN position ELSE 0
  /\ playing' = FALSE
  /\ MainRelease
  /\ UNCHANGED <<source, qVars, audio, samplerate, channels, loaded_path,
                 streamVars, cbVars, cbHist, inLoad, info, cmds>>

\* restart: if self._audio is None: return; self._position = 0
Restart ==
  /\ mainPc = "restart"
  /\ position' = IF audio = 0 THEN position ELSE 0
  /\ MainRelease
  /\ UNCHANGED <<source, qVars, audio, samplerate, channels, playing, loaded_path,
                 streamVars, cbVars, cbHist, inLoad, info, cmds>>

\* seek: if self._audio is None: return; else the read of self._position
SeekRead ==
  /\ mainPc = "seek"
  /\ IF audio = 0
       THEN MainRelease
       ELSE /\ mainTmp' = position
            /\ mainPc' = "seek_w"
            /\ UNCHANGED <<lock, mainArg>>
  /\ UNCHANGED <<source, qVars, playerVars, streamVars, cbVars, cbHist, inLoad, info, cmds>>

\* seek: the assignment self._position = max(0, min(max_pos, ... + delta))
SeekWrite ==
  /\ mainPc = "seek_w"
  /\ position' = SeekTarget(mainTmp, mainArg, samplerate, FileLen(audio))
  /\ MainRelease
  /\ UNCHANGED <<source, qVars, audio, samplerate, channels, playing, loaded_path,
                 streamVars, cbVars, cbHist, inLoad, info, cmds>>

(***************************************************************************)
(* AudioFilePlayer.get_info (consumer thread)                              *)
(***************************************************************************)
\* get_info(): with self._lock
InfoCall ==
  /\ source = "file"
  /\ mainPc = "idle"
  /\ LockFree
  /\ lock' = "main"
  /\ mainPc' = "info"
  /\ UNCHANGED <<source, qVars, playerVars, streamVars, cbVars, cbHist,
                 mainArg, mainTmp, inLoad, info, cmds>>

\* if self._audio is None: return PlaybackInfo(...); else duration and
\* pos = self._position / self._samplerate
InfoRead ==
  /\ mainPc = "info"
  /\ IF audio = 0
       THEN /\ info' = NoInfo
            /\ lock' = "free"
            /\ mainPc' = "info_ret"
            /\ UNCHANGED <<mainArg, mainTmp>>
       ELSE /\ mainTmp' = position
            /\ mainPc' = "info_r"
            /\ UNCHANGED <<lock, mainArg, info>>
  /\ UNCHANGED <<source, qVars, playerVars, streamVars, cbVars, cbHist, inLoad, cmds>>

\* return PlaybackInfo(filename, position_seconds, duration_seconds,
\* playing=self._playing, loaded=True); seconds are kept as samples and rate
InfoReturn ==
  /\ mainPc = "info_r"
  /\ info' = [loaded |-> TRUE, playing |-> playing, position |-> mainTmp,
              duration |-> FileLen(audio), rate |-> samplerate,
              filename |-> loaded_path]
  /\ lock' = "free"
  /\ mainPc' = "info_ret"
  /\ mainTmp' = 0
  /\ UNCHANGED <<source, qVars, playerVars, streamVars, cbVars, cbHist, mainArg,
                 inLoad, cmds>>

\* the caller takes the returned PlaybackInfo (main: the hud dictionary)
InfoTaken ==
  /\ mainPc = "info_ret"
  /\ info' = NoInfo
  /\ mainPc' = "idle"
  /\ UNCHANGED <<source, qVars, playerVars, streamVars, lock, cbVars, cbHist,
                 mainArg, mainTmp, inLoad, cmds>>

(***************************************************************************)
(* Threads and specifications                                              *)
(***************************************************************************)
TransportOps == {"play", "pause", "toggle", "restart", "seek"}

CallbackThread ==
  /\ UNCHANGED <<anVars, visVars, returned>>
  /\ \/ \E status \in BOOLEAN : AudioCallback(status)
     \/ \E status \in BOOLEAN : PlayerCallback(status)
     \/ CbAcquire
     \/ CbRead
     \/ CbAdvance
     \/ CbPush
     \/ CbDropOldest
     \/ CbPutAgain

MainThread ==
  /\ UNCHANGED <<anVars, visVars, returned>>
  /\ \/ DrainCall
     \/ DrainGet
     \/ DrainEmpty
     \/ DrainTaken
     \/ MicStart
     \/ MicSetRunning
     \/ MicStop
     \/ CloseCheck
     \/ StreamStop
     \/ StreamClose
     \/ StreamDrop
     \/ \E path \in Paths : LoadCall(path)
     \/ LoadAcquire
     \/ LoadAssign
     \/ RestartOpen
     \/ CloseCall
     \/ \E op \in TransportOps, halves \in SeekHalves : TransportCall(op, halves)
     \/ Play
     \/ Pause
     \/ Toggle
     \/ Restart
     \/ SeekRead
     \/ SeekWrite
     \/ InfoCall
     \/ InfoRead
     \/ InfoReturn
     \/ InfoTaken

Next == CallbackThread \/ MainThread

Spec == Init /\ [][Next]_vars

\* The specifications with fairness issue one command less than the others:
\* the first command of the budget counts as spent.
FairInit == FreshSourceAfter(1) /\ FreshAnalyzer /\ FreshRenderer

\* The device thread keeps being scheduled and gets the lock, which the
\* consumer holds for a few statements only; the consumer keeps running.
LiveSpec == FairInit /\ [][Next]_vars /\ WF_vars(MainThread) /\ SF_vars(CallbackThread)

\* As LiveSpec, and the consumer too gets the lock, and the stopped stream,
\* that it finds available again and again.
FairSpec == FairInit /\ [][Next]_vars /\ SF_vars(MainThread) /\ SF_vars(CallbackThread)

(***************************************************************************)
(* The order of the frames successive drains return.  The same threads,    *)
(* with the history of the frame returned last: its age grows with every   *)
(* push that follows, like the age of the frames in the exchange.          *)
(***************************************************************************)
OlderAge(a) == IF a < 0 THEN a ELSE Min(AgeCap, a + 1)

\* a put_nowait succeeded in this step
PushStep == Len(queue') > Len(queue)

\* a drain returns in this step
ReturnStep == mainPc = "drain" /\ mainPc' = "drained"

\* history: a push makes the frame returned last one push older
Aged == returned' = IF PushStep THEN OlderAge(returned) ELSE returned

\* history: a drain that returns a pushed frame makes it the frame returned last
Noted == returned' = IF ReturnStep /\ result'.age >= 0 THEN result'.age ELSE returned

OrderCallback ==
  /\ UNCHANGED <<anVars, visVars>>
  /\ \/ \E status \in BOOLEAN : AudioCallback(status)
     \/ \E status \in BOOLEAN : PlayerCallback(status)
     \/ CbAcquire
     \/ CbRead
     \/ CbAdvance
     \/ CbPush
     \/ CbDropOldest
     \/ CbPutAgain
  /\ Aged

OrderMain ==
  /\ UNCHANGED <<anVars, visVars>>
  /\ \/ DrainCall
     \/ DrainGet
     \/ DrainEmpty
     \/ DrainTaken
     \/ MicStart
     \/ MicSetRunning
     \/ MicStop
     \/ CloseCheck
     \/ StreamStop
     \/ StreamClose
     \/ StreamDrop
     \/ \E path \in Paths : LoadCall(path)
     \/ LoadAcquire
     \/ LoadAssign
     \/ RestartOpen
     \/ CloseCall
     \/ \E op \in TransportOps, halves \in SeekHalves : TransportCall(op, halves)
     \/ Play
     \/ Pause
     \/ Toggle
     \/ Restart
     \/ SeekRead
     \/ SeekWrite
     \/ InfoCall
     \/ InfoRead
     \/ InfoReturn
     \/ InfoTaken
  /\ Noted

OrderNext == OrderCallback \/ OrderMain

\* as in FairSpec, the first command of the budget counts as spent
OrderInit == FreshSourceAfter(1) /\ FreshAnalyzer /\ FreshRenderer

OrderSpec == OrderInit /\ [][OrderNext]_vars

(***************************************************************************)
(* AudioAnalyzer (consumer thread).  A frame is given by the band energies *)
(* and the loudness analyze computes from it (the FFT itself is not        *)
(* modelled), as whole numbers of 1e-6.                                    *)
(***************************************************************************)
\* deque(maxlen=64)
HistMax == 64

\* bass_avg * 1.55 and high_avg * 1.65, in hundredths
BeatFactor == 155

TrebleFactor == 165

\* the 1e-6 added to the threshold
Epsilon == 1

\* analyze calls explored from each initial history
MaxAnalyze == 3

\* bass, high and volume of the frames analyze is called with: silence, a
\* frame at epsilon, two faint frames and a loud one
FrameEnergies ==
  {[bass |-> 0, high |-> 0, volume |-> 0],
   [bass |-> 1, high |-> 1, volume |-> 1],
   [bass |-> 4, high |-> 5, volume |-> 3],
   [bass |-> 5, high |-> 6, volume |-> 4],
   [bass |-> 100000, high |-> 100000, volume |-> 100000]}

\* the numbers of silent frames an analyzer has seen when the exploration
\* starts
SilentRuns == {0, 1, 2, HistMax - 1, HistMax}

\* deque.append: at maxlen the oldest entry is evicted
AppendHist(hist, x) ==
  IF Len(hist) >= HistMax THEN Append(Tail(hist), x) ELSE Append(hist, x)

\* a detection without the epsilon
ExceedsWithoutEpsilon(x, hist, factor) == 100 * Len(hist) * x > factor * Sum(hist)

\* a detection against the average of the earlier entries only
ExceedsEarlier(x, hist, factor) ==
  IF Len(hist) <= 1
    THEN 100 * x > 100 * Epsilon
    ELSE 100 * (Len(hist) - 1) * x >
           factor * (Sum(hist) - x) + 100 * Epsilon * (Len(hist) - 1)

\* a detection with the factor on the sample instead of the average
ExceedsScaled(x, hist, factor) ==
  factor * Len(hist) * x > 100 * Sum(hist) + 100 * Epsilon * Len(hist)

\* avg = np.mean(hist) if hist else x;  x > (avg * factor + 1e-6), with both
\* sides multiplied by 100 * len(hist)
Exceeds(x, hist, factor) ==
  IF hist = <<>>
    THEN 100 * x > factor * x + 100 * Epsilon
    ELSE 100 * Len(hist) * x > factor * Sum(hist) + 100 * Epsilon * Len(hist)

\* analyze(frame): the energies are appended to the histories, then compared
\* with the averages of the histories
Analyze(frame) ==
  /\ calls < MaxAnalyze
  /\ bass_hist' = AppendHist(bass_hist, frame.bass)
  /\ high_hist' = AppendHist(high_hist, frame.high)
  /\ vol_hist' = AppendHist(vol_hist, frame.volume)
  /\ state' = [bass |-> frame.bass, high |-> frame.high, volume |-> frame.volume,
               beat |-> Exceeds(frame.bass, bass_hist', BeatFactor),
               treble_hit |-> Exceeds(frame.high, high_hist', TrebleFactor),
               made |-> TRUE]
  /\ prevBass' = bass_hist
  /\ prevHigh' = high_hist
  /\ calls' = calls + 1
  /\ UNCHANGED <<sourceVars, visVars>>

\* analyzer = AudioAnalyzer(player.samplerate, args.blocksize) after a load
NewAnalyzer ==
  /\ bass_hist # <<>>
  /\ bass_hist' = <<>>
  /\ high_hist' = <<>>
  /\ vol_hist' = <<>>
  /\ UNCHANGED <<sourceVars, visVars, state, prevBass, prevHigh, calls>>

\* the AnalysisState of a silent frame after silent frames
SilentState == [NoState EXCEPT !.made = TRUE]

\* an analyzer that has been fed n silent frames, for n in SilentRuns
AnalyzerInit ==
  /\ FreshSource
  /\ \E n \in SilentRuns :
       /\ bass_hist = Zeros(n)
       /\ high_hist = Zeros(n)
       /\ vol_hist = Zeros(n)
       /\ state = IF n = 0 THEN NoState ELSE SilentState
       /\ prevBass = Zeros(Max(0, n - 1))
       /\ prevHigh = Zeros(Max(0, n - 1))
  /\ calls = 0
  /\ FreshRenderer

AnalyzerNext ==
  \/ \E frame \in FrameEnergies : Analyze(frame)
  \/ NewAnalyzer

AnalyzerSpec == AnalyzerInit /\ [][AnalyzerNext]_vars

(***************************************************************************)
(* VisualizerRenderer and the main loop around it (consumer thread).       *)
(* Intensity is kept in thousandths, lives and dt in milliseconds, sizes   *)
(* in thousandths of a pixel, volume in units of 1e-6; a product is        *)
(* rounded down to the unit.  The fields that feed no condition (hue,      *)
(* bg_phase, zoom, shake, flash, positions, velocities, radii) are left    *)
(* out.  A list of particles is held as runs [n, life, size, born] of n    *)
(* equal neighbours, born being the loop iteration that spawned them (0    *)
(* for the warm-up).                                                       *)
(***************************************************************************)
\* if len(self.particles) > 1200
ParticleCap == 1200

\* if len(self.rings) > 120
RingCap == 120

\* self.intensity > 0.08
BeatLevel == 80

\* self.intensity > 0.12
TrebleLevel == 120

\* state.volume - 0.012
NoiseFloor == 12000

\* (...) / 0.10
VolumeSpan == 100000

\* now - last_mode_switch >= 30
RotateAfter == 30000

\* iterations of the main loop explored from each initial state
MaxLoops == 1

\* dt = clock.tick(args.fps) / 1000.0: no time, half a second, a long stall
Dts == {0, 500, 30000}

\* state.volume: silence, a frame of medium volume and a loud one
Volumes == {0, 62000, 112000}

\* the AnalysisState values update is called with
AnalysisInputs == [beat : BOOLEAN, treble_hit : BOOLEAN, volume : Volumes]

\* random.uniform(0.35, 1.0) and random.uniform(2.0, 6.0): the ends of the
\* ranges, the same draw for the particles of one update
Draws == {[life |-> 350, size |-> 2000], [life |-> 1000, size |-> 6000]}

\* the warm-up: iterations of the main loop with no key pressed, dt = 0 and a
\* frame with beat and treble hit at full volume, which fill the renderer's
\* lists; the iterations with free inputs start after one of these numbers
WarmUps == {0, 1, 16, RingCap + 10}

LongestWarmUp == RingCap + 10

\* the frame and the draw of a warm-up iteration
WarmInput == [beat |-> TRUE, treble_hit |-> TRUE, volume |-> 112000]

WarmDraw == [life |-> 1000, size |-> 6000]

\* a mode switch among four modes
NextOfFour(m) == (m + 1) % 4

\* next_mode: self.mode_index = (self.mode_index + 1) % 3
NextModeOf(m) == (m + 1) % 3

\* target_intensity = min(1.0, max(0.0, (state.volume - 0.012) / 0.10))
TargetIntensity(volume) ==
  Min(1000, Max(0, ((volume - NoiseFloor) * 1000) \div VolumeSpan))

\* self.intensity * 0.92 + target_intensity * 0.08
Smoothed(i, target) == (92 * i + 8 * target) \div 100

\* a beat that spawns whatever the intensity
BeatUngated(beat, i) == beat

\* if state.beat and self.intensity > 0.08
BeatGate(beat, i) == beat /\ i > BeatLevel

\* if state.treble_hit and self.intensity > 0.12
TrebleGate(treble, i) == treble /\ i > TrebleLevel

\* int(12 + 48 * self.intensity)
BeatBurst(i) == 12 + (48 * i) \div 1000

\* int(8 + 22 * self.intensity)
TrebleBurst(i) == 8 + (22 * i) \div 1000

\* list.append, amount times, of an entry equal to run
AppendRun(runs, run, amount) ==
  IF amount <= 0
    THEN runs
    ELSE IF runs # <<>> /\ [runs[Len(runs)] EXCEPT !.n = 0] = run
           THEN [runs EXCEPT ![Len(runs)].n = @ + amount]
           ELSE Append(runs, [run EXCEPT !.n = amount])

\* spawn_burst(amount, ...): amount particles are appended
SpawnBurst(ps, amount, draw, born) ==
  AppendRun(ps, [n |-> 0, life |-> draw.life, size |-> draw.size, born |-> born], amount)

\* spawn_ring(...): one ring with life 1.0 is appended
SpawnRing(rs, born) == AppendRun(rs, [n |-> 0, life |-> 1000, born |-> born], 1)

\* p.life -= dt * (0.8 + 0.3 * self.intensity); p.size *= 0.995
AgedParticles(ps, d, i) ==
  [k \in 1..Len(ps) |->
     [ps[k] EXCEPT !.life = @ - (d * (800 + (300 * i) \div 1000)) \div 1000,
                   !.size = (@ * 995) \div 1000]]

\* r.life -= dt * (0.45 + 0.25 * self.intensity)
AgedRings(rs, d, i) ==
  [k \in 1..Len(rs) |->
     [rs[k] EXCEPT !.life = @ - (d * (450 + (250 * i) \div 1000)) \div 1000]]

\* [p for p in self.particles if p.life > 0 and p.size > 0.5]
ParticleAlive(p) == p.life > 0 /\ p.size > 500

\* [r for r in self.rings if r.life > 0]
RingAlive(r) == r.life > 0

\* len(list)
RECURSIVE Count(_)
Count(runs) == IF runs = <<>> THEN 0 ELSE Head(runs).n + Count(Tail(runs))

\* list[excess:]: the first, oldest, excess entries are dropped
RECURSIVE DropFirst(_, _)
DropFirst(runs, excess) ==
  IF excess <= 0 \/ runs = <<>>
    THEN runs
    ELSE IF Head(runs).n <= excess
           THEN DropFirst(Tail(runs), excess - Head(runs).n)
           ELSE <<[Head(runs) EXCEPT !.n = @ - excess]>> \o Tail(runs)

\* a trim that keeps the oldest entries, list[:cap]
RECURSIVE KeepOldest(_, _)
KeepOldest(runs, cap) ==
  IF cap <= 0 \/ runs = <<>>
    THEN <<>>
    ELSE IF Head(runs).n <= cap
           THEN <<Head(runs)>> \o KeepOldest(Tail(runs), cap - Head(runs).n)
           ELSE <<[Head(runs) EXCEPT !.n = cap]>>

\* if len(list) > cap: list = list[-cap:]
KeepNewest(runs, cap) ==
  IF Count(runs) > cap THEN DropFirst(runs, Count(runs) - cap) ELSE runs

\* update(dt, state) as a function of the renderer's fields: the new fields,
\* with what the call was given and did
UpdateOf(r, d, st, draw, born) ==
  LET i == Smoothed(r.intensity, TargetIntensity(st.volume))
      p1 == IF BeatGate(st.beat, i)
              THEN SpawnBurst(r.particles, BeatBurst(i), draw, born)
              ELSE r.particles
      r1 == IF BeatGate(st.beat, i) THEN SpawnRing(r.rings, born) ELSE r.rings
      p2 == IF TrebleGate(st.treble_hit, i)
              THEN SpawnBurst(p1, TrebleBurst(i), draw, born)
              ELSE p1
      p3 == SelectSeq(AgedParticles(p2, d, i), ParticleAlive)
      r3 == SelectSeq(AgedRings(r1, d, i), RingAlive)
  IN  [particles |-> KeepNewest(p3, ParticleCap),
       rings |-> KeepNewest(r3, RingCap),
       intensity |-> i,
       did |-> [beat |-> st.beat, treble_hit |-> st.treble_hit, made |-> TRUE,
                beforeP |-> Count(r.particles), beforeR |-> Count(r.rings),
                spawnedP |-> Count(p2) - Count(r.particles),
                spawnedR |-> Count(r1) - Count(r.rings),
                untrimmedP |-> p3, untrimmedR |-> r3]]

\* the iteration under way belongs to the warm-up
Warming == loops = 0 /\ loopPc # "tick"

\* dt = clock.tick(args.fps) / 1000.0 at the top of the loop; the monotonic
\* clock moves on by as much
Tick(d) ==
  /\ loopPc = "tick"
  /\ \/ /\ loops = 0 /\ warm < LongestWarmUp /\ d = 0
        /\ warm' = warm + 1
        /\ UNCHANGED loops
     \/ /\ warm \in WarmUps /\ loops < MaxLoops
        /\ loops' = loops + 1
        /\ UNCHANGED warm
  /\ dt' = d
  /\ sinceSwitch' = Min(RotateAfter, sinceSwitch + d)
  /\ loopPc' = "events"
  /\ UNCHANGED <<sourceVars, anVars, particles, rings, intensity, mode_index,
                 modeTrail, lastUpdate>>

\* the modes left by the last three switches
Trail(trail, m) == IF Len(trail) >= 3 THEN Append(Tail(trail), m) ELSE Append(trail, m)

\* K_m: renderer.next_mode(); last_mode_switch = time.monotonic()
KeyM ==
  /\ loopPc = "events"
  /\ ~Warming
  /\ mode_index' = NextModeOf(mode_index)
  /\ modeTrail' = Trail(modeTrail, mode_index)
  /\ sinceSwitch' = 0
  /\ UNCHANGED <<sourceVars, anVars, particles, rings, intensity, loopPc, dt, warm,
                 loops, lastUpdate>>

\* the events are handled; if now - last_mode_switch >= 30:
\* renderer.next_mode(); last_mode_switch = now
Rotate ==
  /\ loopPc = "events"
  /\ IF sinceSwitch >= RotateAfter
       THEN /\ mode_index' = NextModeOf(mode_index)
            /\ modeTrail' = Trail(modeTrail, mode_index)
            /\ sinceSwitch' = 0
       ELSE UNCHANGED <<mode_index, modeTrail, sinceSwitch>>
  /\ loopPc' = "update"
  /\ UNCHANGED <<sourceVars, anVars, particles, rings, intensity, dt, warm, loops,
                 lastUpdate>>

\* renderer.update(dt, state)
Update(st, draw) ==
  /\ loopPc = "update"
  /\ Warming => (st = WarmInput /\ draw = WarmDraw)
  /\ LET u == UpdateOf([particles |-> particles, rings |-> rings,
                        intensity |-> intensity], dt, st, draw, loops)
     IN  /\ particles' = u.particles
         /\ rings' = u.rings
         /\ intensity' = u.intensity
         /\ lastUpdate' = u.did
  /\ loopPc' = "render"
  /\ UNCHANGED <<sourceVars, anVars, mode_index, dt, sinceSwitch, warm, loops, modeTrail>>

\* renderer.render(screen, state, hud): it draws, and assigns no field
Render ==
  /\ loopPc = "render"
  /\ loopPc' = "tick"
  /\ UNCHANGED <<sourceVars, anVars, particles, rings, intensity, mode_index, dt,
                 sinceSwitch, warm, loops, modeTrail, lastUpdate>>

\* main has built the file player, the analyzer and the renderer
RendererInit == FreshSource /\ source = "file" /\ FreshAnalyzer /\ FreshRenderer

RendererNext ==
  \/ \E d \in Dts : Tick(d)
  \/ KeyM
  \/ Rotate
  \/ \E st \in AnalysisInputs, draw \in Draws : Update(st, draw)
  \/ Render

RendererSpec == RendererInit /\ [][RendererNext]_vars

(***************************************************************************)
(* Claims                                                                  *)
(***************************************************************************)

\* C1: a push never fails: under every interleaving of the callback with the
\* consumer's drain the second put_nowait never raises Full, and the exchange
\* never holds more than 8 frames.
TheoremC1 == Len(queue) <= QueueMax /\ cbPc # "raised"

\* the callback stands before its second put_nowait while the consumer, in the
\* middle of a drain, has taken frames out
WitnessC1 == cbPc = "put2" /\ mainPc = "drain" /\ Len(queue) < QueueMax - 1

\* C2: every drain-to-latest read eventually returns, also while the
\* callback keeps pushing frames during the drain loop.
OriginalC2 == (mainPc = "drain") ~> (mainPc = "drained")

\* The two parts of C3: after more than 8 pushes with no consumer read in
\* between, the exchange holds exactly 8 frames, the 8 most recently pushed in
\* push order; the frame an overflowing push discards is the oldest buffered.
RetainsNewest ==
  (cbPc = "idle" /\ pushCount > QueueMax) =>
     /\ Len(queue) = QueueMax
     /\ \A k \in 1..Len(queue) : queue[k].age = QueueMax - k

\* (second part) the step of an overflowing push that discards a frame
DiscardsOldest ==
  (cbPc = "full" /\ cbPc' = "put2" /\ queue # <<>>) =>
     /\ queue' = Tail(queue)
     /\ \A k \in 2..Len(queue) : queue[1].age > queue[k].age

\* C3: both parts, in every state and at every step
TheoremC3 == []RetainsNewest /\ [][DiscardsOldest]_vars

\* nine or more pushes went by without a consumer read and the last is complete
WitnessC3 == cbPc = "idle" /\ pushCount > QueueMax /\ Len(queue) = QueueMax

\* C4: a drain with no concurrent push returns the most recently pushed
\* buffered frame, or the silent frame (blocksize zeros) when nothing was
\* buffered, and leaves the exchange empty.
TheoremC4 ==
  (mainPc = "drained" /\ expect # Dirty) => (result = expect /\ queue = <<>>)

\* a drain without concurrent push has returned the newest frame
WitnessC4 == mainPc = "drained" /\ expect # Dirty /\ result.age = 0

\* C5 as stated: every callback invocation, whatever its arguments, results
\* in exactly one push.
OriginalC5 == (cbPc = "idle" /\ cbRan) => cbPushes = 1

\* C5 as amended: every invocation of AudioFilePlayer._callback, and every
\* invocation of AudioInput._audio_callback whose status is not set, results
\* in exactly one push; a capture callback with status set pushes nothing.
TheoremC5 ==
  (cbPc = "idle" /\ cbRan) =>
     cbPushes = (IF source = "mic" /\ cbStatus THEN 0 ELSE 1)

\* a playback callback has returned after its one push, made into a full queue
WitnessC5 ==
  source = "file" /\ cbPc = "idle" /\ cbRan /\ cbPushes = 1 /\ pushCount > QueueMax

\* the consumer is inside a `with self._lock` block
MainInside ==
  mainPc \in {"load_cs", "play", "pause", "toggle", "restart", "seek", "seek_w",
              "info", "info_r"}

\* the callback is inside its `with self._lock` block
CallbackInside == cbPc \in {"locked", "advance"}

\* C6: the transport operations, load's assignments, get_info and the
\* callback's read and advance of the cursor exclude one another: never are
\* the consumer and the callback both inside their critical section, the lock
\* is held by whoever is inside, and between the read and the write (or the
\* second read) of one critical section the cursor is the one that was read,
\* so no seek, restart or advance is lost and get_info reads one single state.
TheoremC6 ==
  /\ ~(MainInside /\ CallbackInside)
  /\ MainInside => lock = "main"
  /\ CallbackInside => lock = "cb"
  /\ cbPc = "advance" => position = cbStart
  /\ mainPc \in {"seek_w", "info_r"} => position = mainTmp

\* a callback waits at the lock while a seek stands between its read and its
\* write of the cursor
WitnessC6 == mainPc = "seek_w" /\ cbPc = "enter" /\ playing

\* the step that ends the critical section of a callback which found fewer
\* samples left than the block size
EndOfStreamStep ==
  /\ cbPc = "advance"
  /\ cbPc' # "advance"
  /\ FileLen(audio) - cbStart < BlockSize

\* the samples of the file from start on, followed by zeros, one block long
PaddedRest(path, start) ==
  [k \in 1..BlockSize |->
     IF start + k <= FileLen(path)
       THEN FileRow(path, start + k - 1)
       ELSE [c \in 1..FileChannels(path) |-> 0]]

\* C7: in a callback that runs while playing with fewer samples left from the
\* cursor than the block size (none included), the output block is the
\* samples left followed by zeros, the playing flag becomes false, the cursor
\* becomes the number of samples, and nothing is raised.
TheoremC7 ==
  [][EndOfStreamStep =>
       /\ outdata' = PaddedRest(audio, cbStart)
       /\ block' = PaddedRest(audio, cbStart)
       /\ ~playing'
       /\ position' = FileLen(audio)
       /\ cbPc' = "push"]_vars

\* the callback has copied the one sample left of the file, padded the block
\* and stopped playback, and is about to set the cursor
WitnessC7 ==
  /\ cbPc = "advance"
  /\ FileLen(audio) - cbStart = 1
  /\ outdata = PaddedRest(audio, cbStart)
  /\ ~playing

\* the consumer is inside a transport command or load
CommandPcs ==
  {"load", "load_cs", "play", "pause", "toggle", "restart", "seek", "seek_w"}

NoCommand == mainPc \notin CommandPcs

EndReached == ~playing /\ position = FileLen(audio)

PlaysToTheEnd ==
  (source = "file" /\ playing /\ NoCommand)
     ~> (EndReached \/ ~NoCommand \/ stream # "active")

StaysPaused == (~playing /\ NoCommand /\ NoCommand') => ~playing'

\* C8: once playback runs on a loaded file, then, unless a further transport
\* command is issued and as long as the device keeps invoking the callback
\* (the stream stays open), playback eventually is paused with the cursor at
\* the number of samples; and without a further command it stays paused.
TheoremC8 == PlaysToTheEnd /\ [][StaysPaused]_vars

\* with no command left to issue, playback of a file with samples has run to
\* the end and the callback that stopped it is about to push its block
WitnessC8 ==
  /\ cmds = MaxCmds
  /\ NoCommand
  /\ stream = "active"
  /\ FileLen(audio) > 0
  /\ EndReached
  /\ cbPc = "push"

\* clamp(x, lo, hi) of the claim
ClampTo(x, lo, hi) == IF x < lo THEN lo ELSE IF x > hi THEN hi ELSE x

\* the step in which seek() assigns the cursor and returns
SeekStep == mainPc = "seek_w" /\ mainPc' = "idle"

\* int(deltaSeconds * samplerate) of the seek in progress
SeekDelta == IntOf(mainArg * samplerate, 2)

\* C9 as stated: after seek(deltaSeconds) on a loaded source the cursor is
\* clamp(cursor + int(deltaSeconds * samplerate), 0, totalSamples - 1); a large
\* negative seek sets it to 0, a large positive one to totalSamples - 1.
OriginalC9 ==
  [][SeekStep =>
       /\ position' = ClampTo(position + SeekDelta, 0, FileLen(audio) - 1)
       /\ mainArg = 0 - 19998 => position' = 0
       /\ mainArg = 19998 => position' = FileLen(audio) - 1]_vars

\* C9 as amended: the same on a loaded source that has at least one sample; on
\* a loaded source without samples every seek leaves the cursor at 0.
TheoremC9 ==
  [][SeekStep =>
       IF FileLen(audio) >= 1
         THEN /\ position' = ClampTo(position + SeekDelta, 0, FileLen(audio) - 1)
              /\ mainArg = 0 - 19998 => position' = 0
              /\ mainArg = 19998 => position' = FileLen(audio) - 1
         ELSE position' = 0]_vars

\* a seek forward by 1.5 s from the end of the file, where playback stopped,
\* is about to write the cursor
WitnessC9 ==
  /\ mainPc = "seek_w"
  /\ mainArg = 3
  /\ FileLen(audio) >= 1
  /\ position = FileLen(audio)

\* C10: restart() on a loaded source sets the cursor to 0 and changes nothing
\* else: playing flag, buffer, sample rate, channels and loaded path stay.
TheoremC10 ==
  [][(mainPc = "restart" /\ audio # 0 /\ mainPc' # "restart") =>
        /\ position' = 0
        /\ UNCHANGED <<playing, audio, samplerate, channels, loaded_path>>
        /\ UNCHANGED <<queue, stream, streamCh>>]_vars

\* restart() holds the lock on a source that plays with the cursor off 0
WitnessC10 == mainPc = "restart" /\ audio # 0 /\ playing /\ position > 0

\* the step in which a transport command returns while no file is loaded
UnloadedCommandStep == mainPc \in TransportOps /\ audio = 0 /\ mainPc' # mainPc

\* the step in which get_info builds its answer while no file is loaded
UnloadedInfoStep == mainPc = "info" /\ audio = 0 /\ mainPc' # mainPc

\* C11: transport commands on an unloaded source are no-ops: play, pause,
\* toggle, restart and seek called while no file is loaded return normally and
\* leave the cursor, the playing flag (false) and the loaded state, and with
\* them the stream and the queue, unchanged; get_info then reports
\* loaded = false, playing = false and position 0.
TheoremC11 ==
  [][/\ UnloadedCommandStep =>
          /\ mainPc' = "idle"
          /\ lock' = "free"
          /\ UNCHANGED playerVars
          /\ ~playing' /\ position' = 0 /\ audio' = 0
          /\ UNCHANGED <<streamVars, queue>>
     /\ UnloadedInfoStep =>
          /\ mainPc' = "info_ret"
          /\ ~info'.loaded /\ ~info'.playing /\ info'.position = 0
          /\ UNCHANGED playerVars]_vars

\* every command of the budget was issued and has returned, and still no file
\* is loaded: the commands ran on the unloaded source
WitnessC11 ==
  /\ source = "file" /\ mainPc = "idle" /\ cmds = MaxCmds
  /\ audio = 0 /\ ~playing /\ position = 0 /\ stream = "none"

\* a stream that is stopped, closed or dropped has no callback invocation
\* under way
NoCallbackAfterStop == stream # "active" => cbPc = "idle"

\* a stream goes from started to stopped, from stopped to closed and only then
\* is dropped
ReleaseInOrder ==
  /\ (stream' = "stopped" /\ stream # "stopped") => stream = "active"
  /\ (stream' = "closed" /\ stream # "closed") => stream = "stopped"
  /\ (stream' = "none" /\ stream # "none") => stream = "closed"

\* the device thread takes a step only for a stream that is started and stays so
CallbackOnlyWhileActive ==
  (cbVars' # cbVars \/ cbHist' # cbHist) => (stream = "active" /\ stream' = "active")

\* C12: stopping a source halts the device callback before the stream's
\* resources are released: in AudioInput.stop and AudioFilePlayer.close, also
\* when load runs it through _restart_stream, the stream is stopped before it
\* is closed and dropped, and no callback invocation of that stream starts or
\* is still running once it is stopped.
TheoremC12 ==
  /\ []NoCallbackAfterStop
  /\ [][ReleaseInOrder /\ CallbackOnlyWhileActive]_vars

\* load has stopped and closed the stream of the previous file, whose
\* callback had run and pushed, and is about to drop it
WitnessC12 ==
  /\ mainPc = "drop" /\ inLoad /\ stream = "closed"
  /\ cbRan /\ queue # <<>> /\ cbPc = "idle"

\* the step in which stop or close finds no stream
NoStreamStep == mainPc = "closing" /\ stream = "none" /\ mainPc' # mainPc

\* the step in which stop or close is called on a source that has no stream
NoStreamCall == mainPc = "idle" /\ mainPc' = "closing" /\ stream = "none" /\ ~inLoad'

\* the stream calls of a release are made on a stream in the right state:
\* stop on a started stream, close on a stopped one
ReleasedOnce ==
  /\ mainPc = "stop" => stream = "active"
  /\ mainPc = "close" => stream = "stopped"
  /\ mainPc = "drop" => stream = "closed"

\* C13: producer shutdown is idempotent: AudioInput.stop or
\* AudioFilePlayer.close called again after a stop or close, or on a source
\* never started, is a no-op and not an error: it returns with the source's
\* state exactly as it found it, and a stream is stopped and closed at most
\* once.
TheoremC13 ==
  /\ []ReleasedOnce
  /\ [][/\ NoStreamCall =>
             UNCHANGED <<source, qVars, playerVars, streamVars, lock, cbVars, cbHist>>
        /\ NoStreamStep =>
             /\ mainPc' = IF inLoad THEN "open" ELSE "idle"
             /\ UNCHANGED <<source, qVars, playerVars, streamVars, lock, cbVars, cbHist>>]_vars

\* a stream was started, ran its callback and was released, and stop or close
\* has been called again
WitnessC13 ==
  /\ mainPc = "closing" /\ ~inLoad /\ stream = "none" /\ cbRan /\ ~running
  /\ (source = "file" => cmds = 1)

\* the consumer is inside stop, close or _restart_stream
Releasing == mainPc \in {"closing", "stop", "close", "drop", "open"}

\* the consumer is inside a call other than a drain and cannot take a step
MainBlocked == mainPc \notin {"idle", "drain", "drained"} /\ ~ENABLED MainThread

\* the device thread is inside a callback invocation and cannot take a step
CallbackBlocked == cbPc # "idle" /\ ~ENABLED CallbackThread

\* a blocked consumer waits for the lock the callback holds or for the running
\* callback to return; a blocked callback waits for the lock the consumer
\* holds; and whoever is waited for can take a step
NoCircularWait ==
  /\ Releasing => lock # "main"
  /\ MainBlocked =>
       /\ \/ mainPc = "load" /\ lock = "cb"
          \/ mainPc = "stop" /\ cbPc # "idle"
       /\ ENABLED CallbackThread
  /\ CallbackBlocked =>
       /\ cbPc = "enter" /\ lock = "main"
       /\ ENABLED MainThread
  /\ ~(MainBlocked /\ CallbackBlocked)

\* C20: no deadlock between the consumer and the audio callback: the consumer
\* waits for the callback to finish (stream.stop inside close, from load and
\* from shutdown) only while it does not hold the transport lock, and the
\* callback waits for that one lock only; in every reachable state a thread
\* that waits is waiting for one that can take a step, and every started
\* transport command, get_info, load, start, stop, close and callback
\* invocation completes: no thread stays inside one forever.
TheoremC20 ==
  /\ []NoCircularWait
  /\ []<>(mainPc \in {"idle", "drain", "drained"})
  /\ []<>(cbPc = "idle")

\* load waits in stream.stop for the callback of the old stream to return,
\* and that callback is inside its critical section
WitnessC20 ==
  /\ mainPc = "stop" /\ inLoad /\ cbPc = "locked" /\ lock = "cb" /\ MainBlocked

\* the last analyze call found a history of silent frames only
SilentBefore ==
  /\ state.made /\ calls > 0
  /\ prevBass # <<>>
  /\ \A k \in 1..Len(prevBass) : prevBass[k] = 0

\* the bass of the last frame equals the average of the history it met
AtHistoryAverage == state.bass * Len(prevBass) = Sum(prevBass)

\* C16 as stated: after a history of silent frames a frame whose bass energy
\* is at least 1.55 times the history average plus epsilon gives beat = true,
\* and a frame whose bass equals the history average gives beat = false.
OriginalC16 ==
  SilentBefore =>
    /\ (100 * Len(prevBass) * state.bass >=
          BeatFactor * Sum(prevBass) + 100 * Epsilon * Len(prevBass)) => state.beat
    /\ AtHistoryAverage => ~state.beat

\* the entries of the history once the last frame was appended
EntriesAfter(prev) == Min(Len(prev) + 1, HistMax)

\* C16: after a history of n >= 1 silent frames a frame with bass energy b
\* gives beat = true exactly when b > 1.55 * (b / N) + epsilon, N = min(n + 1,
\* 64) being the entries of the history with the frame appended, that is when
\* b * (N - 1.55) > N * epsilon; a frame whose bass equals the history average
\* (zero) gives beat = false.
TheoremC16 ==
  SilentBefore =>
    /\ state.beat <=>
         (state.bass * (100 * EntriesAfter(prevBass) - BeatFactor) >
            100 * Epsilon * EntriesAfter(prevBass))
    /\ AtHistoryAverage => ~state.beat

\* a full history of silent frames, and a frame of 4e-6 that is a beat
WitnessC16 ==
  /\ SilentBefore /\ Len(prevBass) = HistMax /\ Len(bass_hist) = HistMax
  /\ state.bass = 4 /\ state.beat

\* the last analyze call found the histories empty
FirstCall == state.made /\ calls > 0 /\ prevBass = <<>> /\ prevHigh = <<>>

\* C17: the first analyze call of a fresh analyzer, whose histories are
\* empty, returns beat = false and treble_hit = false for every frame, and
\* returns: each history then holds the frame's one value.
TheoremC17 ==
  FirstCall =>
    /\ ~state.beat /\ ~state.treble_hit
    /\ (bass_hist # <<>> => bass_hist = <<state.bass>>)
    /\ (high_hist # <<>> => high_hist = <<state.high>>)

\* the first call was made with the loud frame
WitnessC17 == FirstCall /\ state.bass = 100000 /\ bass_hist = <<100000>>

\* the history held fewer than 64 entries when the last analyze call returned
ShortHistory == state.made /\ calls > 0 /\ Len(prevBass) + 1 < HistMax

\* C18 as stated: on every analyze call while the history holds fewer than
\* 64 entries beat and treble_hit are false.
OriginalC18 == ShortHistory => (~state.beat /\ ~state.treble_hit)

\* C18: detection is suppressed only while a history holds one entry: a call
\* that finds the histories empty returns beat = false and treble_hit = false,
\* and every later call, however short the history, returns beat = true
\* exactly when bass > 1.55 * average + epsilon and treble_hit = true exactly
\* when high > 1.65 * average + epsilon, the average being that of the history
\* with the frame appended.
TheoremC18 ==
  ShortHistory =>
    /\ state.beat <=>
         (state.bass * (100 * (Len(prevBass) + 1) - BeatFactor) >
            BeatFactor * Sum(prevBass) + 100 * Epsilon * (Len(prevBass) + 1))
    /\ state.treble_hit <=>
         (state.high * (100 * (Len(prevHigh) + 1) - TrebleFactor) >
            TrebleFactor * Sum(prevHigh) + 100 * Epsilon * (Len(prevHigh) + 1))
    /\ prevBass = <<>> => ~state.beat
    /\ prevHigh = <<>> => ~state.treble_hit

\* the second call of an analyzer, after one silent frame, fires both
WitnessC18 ==
  /\ ShortHistory /\ prevBass = <<0>> /\ prevHigh = <<0>>
  /\ state.beat /\ state.treble_hit

\* kept holds the newest entries of all, at most cap of them: the entries of
\* all from some place on, the first of them in part or in full
NewestOf(kept, all, cap) ==
  LET off == Len(all) - Len(kept)
  IN  /\ Count(kept) = Min(Count(all), cap)
      /\ off >= 0
      /\ \A k \in 2..Len(kept) : kept[k] = all[off + k]
      /\ kept # <<>> =>
           /\ kept[1].n <= all[off + 1].n
           /\ [kept[1] EXCEPT !.n = 0] = [all[off + 1] EXCEPT !.n = 0]

\* C14: after every update call, whatever the sequence of AnalysisStates
\* (beat and treble hit on every tick at full volume included) and the dt
\* values, there are at most 1200 particles and at most 120 rings; when a
\* list exceeds its cap after the dead entries are removed, the oldest
\* entries are the ones trimmed.
TheoremC14 ==
  /\ Count(particles) <= ParticleCap
  /\ Count(rings) <= RingCap
  /\ lastUpdate.made =>
       /\ NewestOf(particles, lastUpdate.untrimmedP, ParticleCap)
       /\ NewestOf(rings, lastUpdate.untrimmedR, RingCap)

\* an update with free inputs has spawned into full lists: both lists were
\* over their caps and were trimmed
WitnessC14 ==
  /\ loopPc = "render" /\ loops = 1
  /\ lastUpdate.spawnedP > 0 /\ lastUpdate.spawnedR = 1
  /\ Count(lastUpdate.untrimmedP) > ParticleCap /\ Count(particles) = ParticleCap
  /\ Count(lastUpdate.untrimmedR) > RingCap /\ Count(rings) = RingCap

\* a step that changes the mode is a next_mode call of the event handling or
\* of the rotation check, the latter 30 seconds after the last switch, and
\* goes to the next mode of the cycle
ModeChangesByNextMode ==
  mode_index' # mode_index =>
    /\ loopPc = "events"
    /\ mode_index' = (mode_index + 1) % 3
    /\ loopPc' = "update" => sinceSwitch >= RotateAfter

\* update and render leave the mode alone
ModeKeptByUpdateAndRender == loopPc \in {"update", "render"} => mode_index' = mode_index

\* C15: mode_index is 0 at the start and always one of 0, 1, 2; it is changed
\* only by next_mode (the 'm' key or the 30-second rotation of the main
\* loop), which takes m to (m + 1) mod 3, so that three switches in a row
\* lead back to the mode they started from; update and render never change
\* it.
TheoremC15 ==
  /\ mode_index = 0
  /\ [](mode_index \in {0, 1, 2})
  /\ [](Len(modeTrail) = 3 => modeTrail[1] = mode_index)
  /\ [][ModeChangesByNextMode /\ ModeKeptByUpdateAndRender]_vars

\* three switches were made and update has run: the mode is the first one
\* again
WitnessC15 ==
  /\ modeTrail = <<0, 1, 2>> /\ mode_index = 0
  /\ loopPc = "render" /\ loops = 1 /\ lastUpdate.spawnedR = 1

\* the last update passed the beat gate, the treble gate
BeatSpawned == lastUpdate.beat /\ intensity > BeatLevel

TrebleSpawned == lastUpdate.treble_hit /\ intensity > TrebleLevel

\* C19: spawning is gated by events: an update creates a ring exactly when
\* state.beat holds and the smoothed intensity is above 0.08, and then one
\* ring; it creates particles only when that holds or state.treble_hit holds
\* with the intensity above 0.12; an update that creates no particle (no
\* ring) leaves no more particles (rings) than it found.
TheoremC19 ==
  lastUpdate.made =>
    /\ lastUpdate.spawnedR = (IF BeatSpawned THEN 1 ELSE 0)
    /\ lastUpdate.spawnedP > 0 => (BeatSpawned \/ TrebleSpawned)
    /\ ~(BeatSpawned \/ TrebleSpawned) =>
         (lastUpdate.spawnedP = 0 /\ lastUpdate.spawnedR = 0)
    /\ lastUpdate.spawnedP = 0 => Count(particles) <= lastUpdate.beforeP
    /\ lastUpdate.spawnedR = 0 => Count(rings) <= lastUpdate.beforeR

\* beat and treble hit on a tick whose intensity is between the two levels:
\* the beat spawned a ring and particles, the treble hit nothing
WitnessC19 ==
  /\ loopPc = "render" /\ loops = 1
  /\ lastUpdate.beat /\ lastUpdate.treble_hit
  /\ intensity > BeatLevel /\ intensity <= TrebleLevel
  /\ lastUpdate.spawnedR = 1 /\ lastUpdate.spawnedP = BeatBurst(intensity)

\* the number of samples of the loaded buffer; 0 when nothing is loaded
TotalSamples == IF audio = 0 THEN 0 ELSE FileLen(audio)

\* C21: in every reachable state, whatever the interleaving of load, play,
\* pause, toggle, restart, seek and callbacks, the cursor lies between 0 and the
\* number of samples of the loaded buffer (it is 0 when nothing is loaded), and
\* playing implies that a file is loaded.
TheoremC21 ==
  /\ 0 <= position
  /\ position <= TotalSamples
  /\ playing => audio # 0

\* a second load is in its critical section, about to install the file without
\* samples, while the cursor stands at the end of the file played before
WitnessC21 ==
  /\ mainPc = "load_cs" /\ mainArg = 2
  /\ audio = 1 /\ position = FileLen(1)

\* load has installed the new buffer and left its critical section, and the
\* stream opened for the previous file has not been stopped yet
OldStreamWindow == inLoad /\ mainPc \in {"closing", "stop"} /\ stream = "active"

\* in the window playback is paused at the start of the new buffer
PausedAtStart == OldStreamWindow => (~playing /\ position = 0 /\ cbPc # "advance")

\* no step taken in the window moves the cursor, changes the buffer or starts playback
WindowKeepsCursor == OldStreamWindow => UNCHANGED <<audio, position, playing>>

\* a callback that reads the player's state in the window takes the silent
\* branch: its block is np.zeros((frames, 1)) and the device buffer stays as
\* outdata.fill(0) left it
SilentInWindow ==
  (OldStreamWindow /\ cbPc = "locked" /\ cbPc' # cbPc) =>
     /\ cbPc' = "push"
     /\ block' = Zeros2D(BlockSize, 1)
     /\ outdata = Zeros2D(BlockSize, streamCh)
     /\ outdata' = outdata

\* C22 as stated: whatever callback of the old stream runs in the window, it
\* finds playback paused at position 0 and the block it is about to push is
\* silent.
OriginalC22 ==
  /\ PausedAtStart
  /\ (OldStreamWindow /\ cbPc = "push") => block = Zeros2D(BlockSize, 1)

\* C22: a callback of the stream opened for the previous file that enters its
\* critical section during load, after the new buffer has been installed and
\* before the old stream is stopped, finds playback paused at position 0: it
\* copies no sample of the new buffer, does not move the cursor, and its block
\* and its device buffer are silent.
TheoremC22 == []PausedAtStart /\ [][WindowKeepsCursor /\ SilentInWindow]_vars

\* the previous file was played (its newest frame in the queue is not silent),
\* a load has installed the file with samples, and a callback of the old
\* stream holds the lock before the stream is stopped
WitnessC22 ==
  /\ OldStreamWindow
  /\ cbPc = "locked"
  /\ audio = 1
  /\ queue # <<>>
  /\ queue[Len(queue)].data # Zeros(BlockSize)

\* the callback invocation in progress takes a step
CallbackMoves == cbPc' # cbPc

\* the critical section of a callback that finds the source paused or unloaded:
\* cursor, playing flag and buffer stay, and the block is np.zeros((frames, 1))
PausedRead ==
  (cbPc = "locked" /\ (audio = 0 \/ ~playing) /\ CallbackMoves) =>
     /\ UNCHANGED playerVars
     /\ cbPc' = "push"
     /\ block' = Zeros2D(BlockSize, 1)

\* the push of that block: an all-zero frame goes to the tail of the queue, or,
\* the queue being full, is held for the second put_nowait
PausedPush ==
  (cbPc = "push" /\ block = Zeros2D(BlockSize, 1) /\ CallbackMoves) =>
     /\ UNCHANGED playerVars
     /\ IF cbPc' = "idle"
          THEN queue' # <<>> /\ queue'[Len(queue')] = NewFrame(Zeros(BlockSize))
          ELSE cbPc' = "full" /\ mono' = Zeros(BlockSize)

\* a callback gets to its cursor assignment only from a critical section that
\* found a loaded source playing
AdvanceWhilePlaying ==
  (cbPc' = "advance" /\ CallbackMoves) => (cbPc = "locked" /\ audio # 0 /\ playing)

\* the cursor assignment adds min(blockSize, totalSamples - position); no other
\* step of a callback moves the cursor
AdvanceByBlock ==
  CallbackMoves =>
     position' = IF cbPc = "advance"
                   THEN position + Min(BlockSize, FileLen(audio) - position)
                   ELSE position

\* C23: a callback that runs while the source is paused or unloaded leaves
\* cursor, playing flag and buffer unchanged and pushes an all-zero block; the
\* cursor advances only in callbacks that find the source playing, and then by
\* exactly min(blockSize, totalSamples - position).
TheoremC23 == [][PausedRead /\ PausedPush /\ AdvanceWhilePlaying /\ AdvanceByBlock]_vars

\* playback was paused in the middle of the file, and a callback that found
\* it paused is about to push its silent block
WitnessC23 ==
  /\ cbPc = "push"
  /\ block = Zeros2D(BlockSize, 1)
  /\ audio = 1 /\ ~playing
  /\ 0 < position /\ position < FileLen(audio)

\* every frame in the queue was pushed after the frame a drain returned last
QueueAfterReturned ==
  returned >= 0 => \A k \in 1..Len(queue) : queue[k].age < returned

\* a drain that returns a pushed frame returns one pushed after the frame the
\* drain before it returned
InPushOrder ==
  (ReturnStep /\ result'.age >= 0 /\ returned >= 0) => result'.age < returned

\* C24: frames reach the consumer in push order without repetition: under any
\* interleaving with the producer, its drop-oldest removal included, a pushed
\* frame that a drain returns was pushed later than the frame returned by the
\* drain before, hence later than every frame returned earlier, and it is not
\* one of them: no frame returned is still in the queue.
TheoremC24 == []QueueAfterReturned /\ [][InPushOrder]_vars

\* a drain returned a frame; the drain now in progress has emptied the queue
\* together with the producer, whose drop-oldest get_nowait took the newest
\* frame, and is about to return a later, non-silent frame
WitnessC24 ==
  /\ mainPc = "drain"
  /\ cbPc = "put2"
  /\ queue = <<>>
  /\ returned > 0
  /\ latest.age > 0 /\ latest.age < returned
  /\ latest.data # Zeros(BlockSize)

====
